---- MODULE Spec2Model ----
(***************************************************************************)
(* Model of waw/src/worklet.rs: the bridge between an AudioWorklet         *)
(* processor (JavaScript adapter generated by js_source) and a Rust        *)
(* AudioModule (struct Processor), plus the loader script of               *)
(* register_wasm.                                                          *)
(*                                                                         *)
(* Three threads of control are modelled:                                  *)
(*   - the bootstrap of one adapter instance (constructor + async init),   *)
(*   - the per-quantum process path (adapter process -> Processor::process)*)
(*   - the message callback installed by Processor::connect.               *)
(* The module is shared through Arc<Mutex<M>> and the enabled flag through *)
(* Arc<AtomicBool>, so the process path and the message callback are       *)
(* interleaved at the granularity of those synchronisation operations.     *)
(* The synchronous part of init (everything after the single await) runs   *)
(* before any process call or message delivery can start on the instance.  *)
(*                                                                         *)
(* The host is not restricted: it may call process again after the adapter *)
(* returned false, and the port keeps dispatching to the listener that     *)
(* connect registered.  Both then hit a handle that free() invalidated     *)
(* (the Processor pointer, the Closure in Processor.message_callback) and  *)
(* throw without entering the Rust code.                                   *)
(*                                                                         *)
(* The AudioModule is a sample gain module: one command SetGain(g), unit   *)
(* gain after create, output sample = input sample * gain; it reports each *)
(* command through its Emitter.                                            *)
(*                                                                         *)
(* Spec is the adapter instance as js_source drives it: valid payloads,    *)
(* one connect call, the default topology.  SpecPort is the bootstrap and  *)
(* the message side alone, with any payload posted and connect called      *)
(* again.  SpecRT is one Processor::process call for every topology and    *)
(* every raw input.                                                        *)
(***************************************************************************)
EXTENDS Integers, Sequences, FiniteSets, TLC

\* ---------------------------------------------------------------- bounds
MaxQuanta == 3      \* process calls the host makes on the adapter instance
MaxMsgs   == 2      \* messages the control side posts to the port
MaxLoads  == 2      \* times the loader script is evaluated in the context
MaxDim    == 2      \* inputs, outputs and channels per port of a topology
MaxConnects == 2    \* calls of Processor::connect on one Processor

\* ------------------------------------------------------------ value sets
Undef == 0                       \* a globalThis binding that is not set

WasmSrcs == {"none", "ok", "bad_compile", "bad_instantiate"}

Gains   == {2, 3}                \* gains the sample module's commands carry
Samples == {0, 1}                \* values of a raw input sample

\* A topology: number of inputs, channels per port, number of outputs.  The
\* node of the adapter instance has the AudioModule defaults.
Layouts       == [ins : 0..MaxDim, chans : 0..MaxDim, outs : 0..MaxDim]
DefaultLayout == [ins |-> 1, chans |-> 1, outs |-> 1]

\* Port buffers: one entry per port, one per channel of the port, each
\* channel standing for the samples of one render quantum.
ZeroBuffer(ports, chans) == [p \in 1..ports |-> [c \in 1..chans |-> 0]]
RawBuffers(ports, chans) == [1..ports -> [1..chans -> Samples]]
RawInputs(l)  == RawBuffers(l.ins, l.chans)

DestroyPayload == [kind |-> "Destroy", value |-> 0]
GainPayloads   == {[kind |-> "SetGain", value |-> g] : g \in Gains}
Payloads       == {DestroyPayload} \cup GainPayloads

\* a payload that is neither an InternalMessage nor a Command of the module
OtherPayload   == [kind |-> "Other", value |-> 0]
AnyPayloads    == Payloads \cup {OtherPayload}

NoCommand == [op |-> "none", gain |-> 0]

\* what an invocation of the callback sent through the module's Emitter
NoSend == [posts |-> 0, data |-> DestroyPayload, delivered |-> FALSE,
           raised |-> FALSE]

NoInvocation == [payload |-> DestroyPayload, internal |-> 0, oncmd |-> 0,
                 arg |-> NoCommand, sent |-> NoSend]

VARIABLES
  \* AudioWorkletGlobalScope (shared by every worklet of the context)
  bindgen,        \* globalThis.bindgen
  init,           \* globalThis.init
  loads,          \* number of evaluations of the loader script
  \* adapter instance (class generated by js_source)
  apc,            \* position of constructor/init
  wasmSrc,        \* wasm_src argument of init
  optionsOk,      \* construction options convert to the buffer sizing
  layout,         \* topology the construction options describe
  compiled,       \* init holds the module WebAssembly.compile resolved to
  instantiated,   \* init's call of bindgen.initSync(module) returned
  failedAt,       \* step at which init threw, or "none"
  processor,      \* this.processor: "undef", "live" or "freed"
  doneMsgs,       \* completion messages posted to the control side
  \* Processor
  enabled,        \* Processor.enabled (AtomicBool)
  mutex,          \* owner of Processor.rs_processor's lock
  gain,           \* state of the AudioModule behind the lock
  audioIn,        \* Processor.audio, input side
  audioOut,       \* Processor.audio, output side
  connectCalls,   \* calls of Processor::connect
  listeners,      \* "message" listeners registered on the port
  portStarted,    \* port.start() was called
  freeCalls,      \* calls of this.processor.free()
  \* process path
  ppc,            \* position inside adapter process / Processor::process
  quanta,         \* process calls made by the host
  lastRet,        \* outcome of the latest adapter process call
  falseRets,      \* adapter process calls that returned false
  calledAfterDestroy,\* some call was made after a Destroy was handled
  \* frame of the process call in progress
  rawIn,          \* inputs argument
  rawOut,         \* outputs argument
  ret,            \* value returned by Processor::process
  trace,          \* steps performed so far by Processor::process
  entryAfterDestroy, \* the call was made after a Destroy was handled
  cmdsAtLock,     \* cmdsDelivered when the call took the lock
  appliedAtLock,  \* applied when the call took the lock
  gainAtLock,     \* module state when the call took the lock
  gainUsed,       \* gain the module's process used
  \* message callback
  hpc,            \* position inside the message callback
  inbox,          \* messages queued on the port, oldest first
  posted,         \* messages posted by the control side
  cur,            \* event.data() of the latest invocation
  inv,            \* what the latest invocation did
  cmdsDelivered,  \* invocations whose payload was not an InternalMessage
  applied,        \* on_command calls completed
  lastApplied,    \* argument of the latest on_command call
  destroyHandled, \* some invocation executed the Destroy branch
  lastDispatch    \* outcome of the latest dispatch to the listener

globalVars  == <<bindgen, init, loads>>
adapterVars == <<apc, wasmSrc, optionsOk, layout, compiled, instantiated,
                 failedAt, processor, doneMsgs>>
bridgeVars  == <<enabled, mutex, gain, audioIn, audioOut, connectCalls,
                 listeners, portStarted, freeCalls>>
frameVars   == <<rawIn, rawOut, ret, trace, entryAfterDestroy, cmdsAtLock,
                 appliedAtLock, gainAtLock, gainUsed>>
processVars == <<ppc, quanta, lastRet, falseRets, calledAfterDestroy,
                 frameVars>>
handlerVars == <<hpc, inbox, posted, cur, inv, cmdsDelivered, applied,
                 lastApplied, destroyHandled, lastDispatch>>
vars == <<globalVars, adapterVars, bridgeVars, processVars, handlerVars>>

Init ==
  /\ bindgen = Undef /\ init = Undef /\ loads = 0
  /\ apc = "none" /\ wasmSrc = "none" /\ optionsOk = TRUE
  /\ layout = DefaultLayout
  /\ compiled = FALSE /\ instantiated = FALSE /\ failedAt = "none"
  /\ processor = "undef" /\ doneMsgs = 0
  /\ enabled = TRUE /\ mutex = "free" /\ gain = 1
  /\ audioIn = <<>> /\ audioOut = <<>>
  /\ connectCalls = 0 /\ listeners = 0 /\ portStarted = FALSE
  /\ freeCalls = 0
  /\ ppc = "idle" /\ quanta = 0 /\ lastRet = "none" /\ falseRets = 0
  /\ calledAfterDestroy = FALSE
  /\ rawIn = <<>> /\ rawOut = <<>> /\ ret = TRUE /\ trace = <<>>
  /\ entryAfterDestroy = FALSE
  /\ cmdsAtLock = 0 /\ appliedAtLock = 0 /\ gainAtLock = 0 /\ gainUsed = 0
  /\ hpc = "idle" /\ inbox = <<>> /\ posted = 0 /\ cur = DestroyPayload
  /\ inv = NoInvocation /\ cmdsDelivered = 0 /\ applied = 0
  /\ lastApplied = NoCommand /\ destroyHandled = FALSE
  /\ lastDispatch = "none"

\* ------------------------------------------------- loader (register_wasm)
\* variant: plain assignment instead of `||=`
OrAssignOverwrite(old, new) == new

\* `a ||= b` of the loader script: assign only when the binding is falsy.
OrAssign(old, new) == IF old = Undef THEN new ELSE old

\* The module namespace the k-th evaluation of the loader script imports
\* (`import _init, * as _bindgen from "{url}"`); evaluations are not assumed
\* to import the same object.
Imported(k) == k

\* One evaluation of the script produced by register_wasm.
RunLoader ==
  /\ loads < MaxLoads
  /\ loads' = loads + 1
  /\ bindgen' = OrAssign(bindgen, Imported(loads + 1))
  /\ init' = OrAssign(init, Imported(loads + 1))
  /\ UNCHANGED <<adapterVars, bridgeVars, processVars, handlerVars>>

\* ------------------------------------------- adapter constructor and init
InitFail(step) ==
  /\ apc' = "failed"
  /\ failedAt' = step

\* constructor(options): stores the options and starts init, which runs
\* synchronously up to `await WebAssembly.compile`.
Construct(src, ok) ==
  /\ apc = "none"
  /\ wasmSrc' = src
  /\ optionsOk' = ok
  /\ apc' = IF src # "none" THEN "compile" ELSE "construct"
  /\ UNCHANGED <<layout, compiled, instantiated, failedAt, processor,
                 doneMsgs>>
  /\ UNCHANGED <<globalVars, bridgeVars, processVars, handlerVars>>

\* variant: a rejected compile does not stop init
InitCompileSwallow ==
  /\ apc = "compile"
  /\ compiled' = (wasmSrc # "bad_compile")
  /\ apc' = "instantiate"
  /\ UNCHANGED <<wasmSrc, optionsOk, layout, instantiated, failedAt,
                 processor, doneMsgs>>
  /\ UNCHANGED <<globalVars, bridgeVars, processVars, handlerVars>>

\* const module = await WebAssembly.compile(wasm_src)
InitCompile ==
  /\ apc = "compile"
  /\ IF wasmSrc = "bad_compile"
       THEN InitFail("compile") /\ UNCHANGED compiled
       ELSE apc' = "instantiate" /\ compiled' = TRUE /\ UNCHANGED failedAt
  /\ UNCHANGED <<wasmSrc, optionsOk, layout, instantiated, processor,
                 doneMsgs>>
  /\ UNCHANGED <<globalVars, bridgeVars, processVars, handlerVars>>

\* bindgen.initSync(module)
InitInstantiate ==
  /\ apc = "instantiate"
  /\ IF bindgen = Undef \/ wasmSrc = "bad_instantiate"
       THEN InitFail("instantiate") /\ UNCHANGED instantiated
       ELSE apc' = "construct" /\ instantiated' = TRUE /\ UNCHANGED failedAt
  /\ UNCHANGED <<wasmSrc, optionsOk, layout, compiled, processor, doneMsgs>>
  /\ UNCHANGED <<globalVars, bridgeVars, processVars, handlerVars>>

\* Processor::new: reads the options, sizes the buffers, enabled = true.
ProcessorNew ==
  /\ enabled' = TRUE
  /\ mutex' = "free"
  /\ gain' = 1
  /\ audioIn' = ZeroBuffer(layout.ins, layout.chans)
  /\ audioOut' = ZeroBuffer(layout.outs, layout.chans)
  /\ UNCHANGED <<connectCalls, listeners, portStarted, freeCalls>>

\* variant: a failing constructor is swallowed and init carries on
InitConstructLenient ==
  /\ apc = "construct"
  /\ apc' = "post"
  /\ IF bindgen = Undef \/ ~optionsOk
       THEN UNCHANGED <<processor, bridgeVars>>
       ELSE processor' = "live" /\ ProcessorNew
  /\ UNCHANGED <<wasmSrc, optionsOk, layout, compiled, instantiated,
                 failedAt, doneMsgs>>
  /\ UNCHANGED <<globalVars, processVars, handlerVars>>

\* variant: Processor::new accepts options that do not convert
InitConstructAnyOptions ==
  /\ apc = "construct"
  /\ IF bindgen = Undef
       THEN InitFail("construct") /\ UNCHANGED <<processor, bridgeVars>>
       ELSE /\ apc' = "post"
            /\ processor' = "live"
            /\ ProcessorNew
            /\ UNCHANGED failedAt
  /\ UNCHANGED <<wasmSrc, optionsOk, layout, compiled, instantiated,
                 doneMsgs>>
  /\ UNCHANGED <<globalVars, processVars, handlerVars>>

\* this.processor = new bindgen.<processor_name>(this)
InitConstruct ==
  /\ apc = "construct"
  /\ IF bindgen = Undef \/ ~optionsOk
       THEN InitFail("construct") /\ UNCHANGED <<processor, bridgeVars>>
       ELSE /\ apc' = "post"
            /\ processor' = "live"
            /\ ProcessorNew
            /\ UNCHANGED failedAt
  /\ UNCHANGED <<wasmSrc, optionsOk, layout, compiled, instantiated,
                 doneMsgs>>
  /\ UNCHANGED <<globalVars, processVars, handlerVars>>

\* this.port.postMessage({ method: 'send_wasm_program_done' })
InitPost ==
  /\ apc = "post"
  /\ doneMsgs' = doneMsgs + 1
  /\ apc' = "connect"
  /\ UNCHANGED <<wasmSrc, optionsOk, layout, compiled, instantiated,
                 failedAt, processor>>
  /\ UNCHANGED <<globalVars, bridgeVars, processVars, handlerVars>>

\* Processor::connect: registers the message callback and starts the port.
Connect ==
  /\ connectCalls' = connectCalls + 1
  /\ listeners' = listeners + 1
  /\ portStarted' = TRUE
  /\ UNCHANGED <<enabled, mutex, gain, audioIn, audioOut, freeCalls>>

\* this.processor.connect(), after which init returns and its frame (the
\* wasm_src argument, the compiled module) is gone
InitConnect ==
  /\ apc = "connect"
  /\ Connect
  /\ apc' = "done"
  /\ wasmSrc' = "none"
  /\ compiled' = FALSE
  /\ instantiated' = FALSE
  /\ UNCHANGED <<optionsOk, layout, failedAt, processor, doneMsgs>>
  /\ UNCHANGED <<globalVars, processVars, handlerVars>>

\* Processor::connect called again on a connected Processor: one more
\* listener and a new Closure in message_callback.
ConnectAgain ==
  /\ apc = "done"
  /\ processor = "live"
  /\ ppc = "idle"
  /\ hpc = "idle"
  /\ connectCalls < MaxConnects
  /\ Connect
  /\ UNCHANGED <<globalVars, adapterVars, processVars, handlerVars>>

\* Processor.message_callback is one Option<Closure>: it owns the closure of
\* the latest connect only (an earlier one is dropped by the assignment),
\* and nothing once the Processor is freed.
LiveClosures == IF processor = "live" /\ connectCalls > 0 THEN 1 ELSE 0

\* listeners on the port whose closure has been dropped
StaleListeners == listeners - LiveClosures

\* init is suspended at its await, has finished, or has thrown: the
\* rendering thread is free to run process calls and message events.
InitQuiescent == apc \in {"compile", "done", "failed"}

\* ------------------------------------------------------ sample AudioModule
\* AudioModule::create: the module starts with unit gain.
\* AudioModule::Command, From<JsValue>: the payload's value becomes the gain
\* of a SetGain command.
CommandFromJs(p) ==
  IF p.kind = "SetGain" THEN [op |-> "SetGain", gain |-> p.value]
                        ELSE [op |-> "Unknown", gain |-> 0]

\* AudioModule::on_command: SetGain replaces the gain.
OnCommand(g, c) == IF c.op = "SetGain" THEN c.gain ELSE g

\* AudioModule::process: every channel of an output is the same channel of
\* the input with that index times gain; an output without input is silent.
ModuleProcess(in, out, g) ==
  [p \in DOMAIN out |->
     [c \in DOMAIN out[p] |->
        IF p \in DOMAIN in /\ c \in DOMAIN in[p] THEN in[p][c] * g ELSE 0]]

\* AudioBuffer::copy_from_input: fills every channel of every input port of
\* the buffer; a channel the raw input omits is zeroed.
CopyFromInput(buf, raw) ==
  [p \in DOMAIN buf |->
     [c \in DOMAIN buf[p] |->
        IF p \in DOMAIN raw /\ c \in DOMAIN raw[p] THEN raw[p][c] ELSE 0]]

\* AudioBuffer::copy_to_output: writes every channel of every output port
\* of the buffer into the raw output.
CopyToOutput(buf, raw) ==
  [p \in DOMAIN raw |->
     [c \in DOMAIN raw[p] |->
        IF p \in DOMAIN buf /\ c \in DOMAIN buf[p]
          THEN buf[p][c] ELSE raw[p][c]]]

\* AudioModule::Event, Into<JsValue>: the event the module reports after a
\* command, as the value posted to the control side.
EventToJs(e) == [kind |-> "GainChanged", value |-> e.gain]

\* variant: a failed post is unwrapped instead of discarded
EmitterSendUnwrap(event, ok) ==
  [posts |-> 1, data |-> EventToJs(event), delivered |-> ok, raised |-> ~ok]

\* Emitter::send: self.port.post_message(&event.into()).ok() -- one post of
\* the converted event, whose Result (ok or not) is discarded.
EmitterSend(event, ok) ==
  [posts |-> 1, data |-> EventToJs(event), delivered |-> ok, raised |-> FALSE]

\* serde_wasm_bindgen::from_value::<InternalMessage>(event.data())
DecodeInternal(p) == IF p.kind = "Destroy" THEN "Destroy" ELSE "error"

\* --------------------------------------------------------- process path
\* the adapter's process call ends with outcome r
Outcome(r) ==
  /\ lastRet' = r
  /\ falseRets' = IF r = "false" THEN falseRets + 1 ELSE falseRets

\* variant: the adapter calls process on a processor that is not set
AdapterProcessCallUnguarded(x) ==
  /\ InitQuiescent
  /\ ppc = "idle"
  /\ quanta < MaxQuanta
  /\ quanta' = quanta + 1
  /\ CASE processor = "undef" ->
            /\ Outcome("throw")
            /\ UNCHANGED <<ppc, rawIn, rawOut, trace, entryAfterDestroy,
                           calledAfterDestroy, lastDispatch>>
       [] processor = "freed" ->
            /\ Outcome("throw")
            /\ UNCHANGED <<ppc, rawIn, rawOut, trace, entryAfterDestroy,
                           calledAfterDestroy, lastDispatch>>
       [] processor = "live" ->
            /\ ppc' = "copy_in"
            /\ rawIn' = x
            /\ rawOut' = ZeroBuffer(layout.outs, layout.chans)
            /\ trace' = <<>>
            /\ entryAfterDestroy' = destroyHandled
            /\ calledAfterDestroy' = (calledAfterDestroy \/ destroyHandled)
            /\ UNCHANGED <<lastRet, falseRets, lastDispatch>>
  /\ UNCHANGED <<ret, cmdsAtLock, appliedAtLock, gainAtLock, gainUsed>>
  /\ UNCHANGED <<hpc, inbox, posted, cur, inv, cmdsDelivered, applied,
                 lastApplied, destroyHandled>>
  /\ UNCHANGED <<globalVars, adapterVars, bridgeVars>>

\* process(inputs, outputs, parameters) of the adapter, up to the call of
\* this.processor.process.  An undefined processor short-circuits the
\* condition; a freed one makes the call throw (its pointer is null).
AdapterProcessCall(x) ==
  /\ InitQuiescent
  /\ ppc = "idle"
  /\ quanta < MaxQuanta
  /\ quanta' = quanta + 1
  /\ CASE processor = "undef" ->
            /\ Outcome("true")
            /\ UNCHANGED <<ppc, rawIn, rawOut, trace, entryAfterDestroy,
                           calledAfterDestroy, lastDispatch>>
       [] processor = "freed" ->
            /\ Outcome("throw")
            /\ UNCHANGED <<ppc, rawIn, rawOut, trace, entryAfterDestroy,
                           calledAfterDestroy, lastDispatch>>
       [] processor = "live" ->
            /\ ppc' = "copy_in"
            /\ rawIn' = x
            /\ rawOut' = ZeroBuffer(layout.outs, layout.chans)
            /\ trace' = <<>>
            /\ entryAfterDestroy' = destroyHandled
            /\ calledAfterDestroy' = (calledAfterDestroy \/ destroyHandled)
            /\ UNCHANGED <<lastRet, falseRets, lastDispatch>>
  /\ UNCHANGED <<ret, cmdsAtLock, appliedAtLock, gainAtLock, gainUsed>>
  /\ UNCHANGED <<hpc, inbox, posted, cur, inv, cmdsDelivered, applied,
                 lastApplied, destroyHandled>>
  /\ UNCHANGED <<globalVars, adapterVars, bridgeVars>>

Step(name, next) ==
  /\ trace' = Append(trace, name)
  /\ ppc' = next
  /\ UNCHANGED <<quanta, lastRet, falseRets, calledAfterDestroy, rawIn,
                 entryAfterDestroy>>

\* self.audio.copy_from_input(input)
ProcCopyIn ==
  /\ ppc = "copy_in"
  /\ audioIn' = CopyFromInput(audioIn, rawIn)
  /\ Step("copy_from_input", "copy_params")
  /\ UNCHANGED <<enabled, mutex, gain, audioOut, connectCalls, listeners,
                 portStarted, freeCalls>>
  /\ UNCHANGED <<rawOut, ret, cmdsAtLock, appliedAtLock, gainAtLock,
                 gainUsed>>
  /\ UNCHANGED <<globalVars, adapterVars, handlerVars>>

\* self.params.copy_from_params(params)
ProcCopyParams ==
  /\ ppc = "copy_params"
  /\ Step("copy_from_params", "lock")
  /\ UNCHANGED <<rawOut, ret, cmdsAtLock, appliedAtLock, gainAtLock,
                 gainUsed>>
  /\ UNCHANGED <<globalVars, adapterVars, bridgeVars, handlerVars>>

\* the lock is taken by Processor::process
TakeLock ==
  /\ mutex' = "process"
  /\ cmdsAtLock' = cmdsDelivered
  /\ appliedAtLock' = applied
  /\ gainAtLock' = gain
  /\ Step("lock", "module")
  /\ UNCHANGED <<enabled, gain, audioIn, audioOut, connectCalls, listeners,
                 portStarted, freeCalls>>
  /\ UNCHANGED <<rawOut, ret, gainUsed>>
  /\ UNCHANGED <<globalVars, adapterVars, handlerVars>>

\* variant: process enters the module without waiting for the lock
ProcLockBarging ==
  /\ ppc = "lock"
  /\ TakeLock

\* self.rs_processor.lock().unwrap(): waits while the callback owns the lock
ProcLock ==
  /\ ppc = "lock"
  /\ mutex = "free"
  /\ TakeLock

\* .process(&mut self.audio, &self.params) on the locked module
ProcModule ==
  /\ ppc = "module"
  /\ audioOut' = ModuleProcess(audioIn, audioOut, gain)
  /\ gainUsed' = gain
  /\ Step("module_process", "unlock")
  /\ UNCHANGED <<enabled, mutex, gain, audioIn, connectCalls, listeners,
                 portStarted, freeCalls>>
  /\ UNCHANGED <<rawOut, ret, cmdsAtLock, appliedAtLock, gainAtLock>>
  /\ UNCHANGED <<globalVars, adapterVars, handlerVars>>

\* variant: the guard outlives the statement
ProcUnlockKeepsGuard ==
  /\ ppc = "unlock"
  /\ Step("unlock", "copy_out")
  /\ UNCHANGED <<rawOut, ret, cmdsAtLock, appliedAtLock, gainAtLock,
                 gainUsed>>
  /\ UNCHANGED <<globalVars, adapterVars, bridgeVars, handlerVars>>

\* the MutexGuard temporary is dropped at the end of the statement
ProcUnlock ==
  /\ ppc = "unlock"
  /\ mutex' = "free"
  /\ Step("unlock", "copy_out")
  /\ UNCHANGED <<enabled, gain, audioIn, audioOut, connectCalls, listeners,
                 portStarted, freeCalls>>
  /\ UNCHANGED <<rawOut, ret, cmdsAtLock, appliedAtLock, gainAtLock,
                 gainUsed>>
  /\ UNCHANGED <<globalVars, adapterVars, handlerVars>>

\* variant: the output copy is left out
ProcCopyOutNone ==
  /\ ppc = "copy_out"
  /\ Step("copy_to_output", "load")
  /\ UNCHANGED <<rawOut, ret, cmdsAtLock, appliedAtLock, gainAtLock,
                 gainUsed>>
  /\ UNCHANGED <<globalVars, adapterVars, bridgeVars, handlerVars>>

\* self.audio.copy_to_output(output)
ProcCopyOut ==
  /\ ppc = "copy_out"
  /\ rawOut' = CopyToOutput(audioOut, rawOut)
  /\ Step("copy_to_output", "load")
  /\ UNCHANGED <<ret, cmdsAtLock, appliedAtLock, gainAtLock, gainUsed>>
  /\ UNCHANGED <<globalVars, adapterVars, bridgeVars, handlerVars>>

\* Processor::process returns r
Return(r) ==
  /\ ret' = r
  /\ Step("load_enabled", "ret")
  /\ UNCHANGED <<rawOut, cmdsAtLock, appliedAtLock, gainAtLock, gainUsed>>
  /\ UNCHANGED <<globalVars, adapterVars, bridgeVars, handlerVars>>

\* variant: the enabled flag is read under the module lock
ProcLoadLocked ==
  /\ ppc = "load"
  /\ mutex = "free"
  /\ Return(enabled)

\* variant: process always reports the Processor as enabled
ProcLoadStale ==
  /\ ppc = "load"
  /\ Return(TRUE)

\* self.enabled.load(Ordering::Relaxed), the value Processor::process returns
ProcLoad ==
  /\ ppc = "load"
  /\ Return(enabled)

\* the frame of the call is gone: its arguments, its locals and the record
\* of its steps
CallEnds ==
  /\ ppc' = "idle"
  /\ rawIn' = <<>>
  /\ rawOut' = <<>>
  /\ ret' = TRUE
  /\ trace' = <<>>
  /\ entryAfterDestroy' = FALSE
  /\ cmdsAtLock' = 0
  /\ appliedAtLock' = 0
  /\ gainAtLock' = 0
  /\ gainUsed' = 0
  /\ UNCHANGED <<quanta, calledAfterDestroy>>
  /\ UNCHANGED <<enabled, mutex, gain, audioIn, audioOut, connectCalls,
                 listeners, portStarted>>
  /\ UNCHANGED <<apc, wasmSrc, optionsOk, layout, compiled, instantiated,
                 failedAt, doneMsgs>>
  /\ UNCHANGED <<globalVars, handlerVars>>

\* this.processor.free(); return false
FreeAndReturnFalse ==
  /\ processor' = "freed"
  /\ freeCalls' = freeCalls + 1
  /\ Outcome("false")

\* variant: the adapter frees the Processor after every call
AdapterProcessReturnAlwaysFree ==
  /\ ppc = "ret"
  /\ processor' = "freed"
  /\ freeCalls' = freeCalls + 1
  /\ Outcome(IF ret THEN "true" ELSE "false")
  /\ CallEnds

\* variant: the adapter returns false without freeing the Processor
AdapterProcessReturnNoFree ==
  /\ ppc = "ret"
  /\ Outcome(IF ret THEN "true" ELSE "false")
  /\ UNCHANGED <<processor, freeCalls>>
  /\ CallEnds

\* the rest of the adapter's process: on a false result free the Processor
\* and return false, otherwise return true
AdapterProcessReturn ==
  /\ ppc = "ret"
  /\ IF ~ret
       THEN FreeAndReturnFalse
       ELSE Outcome("true") /\ UNCHANGED <<processor, freeCalls>>
  /\ CallEnds

\* ------------------------------------------------------- message callback
\* the control side posts a message to the node's port
PostMessage(p) ==
  /\ posted < MaxMsgs
  /\ posted' = posted + 1
  /\ inbox' = Append(inbox, p)
  /\ UNCHANGED <<hpc, cur, inv, cmdsDelivered, applied, lastApplied,
                 destroyHandled, lastDispatch>>
  /\ UNCHANGED <<globalVars, adapterVars, bridgeVars, processVars>>

\* variant: every payload is forwarded to the module
DispatchForwardAll(p) == "lock"

\* if let Ok(internal_message) = from_value::<InternalMessage>(..) {..} else {..}
\* : the branch of the callback a payload selects
Dispatch(p) == IF DecodeInternal(p) = "Destroy" THEN "store" ELSE "lock"

\* The port dispatches the oldest queued message to its listeners: one
\* whose closure was dropped throws, the live one runs the callback, which
\* first tries to decode event.data() as an InternalMessage.
MessageCallback ==
  /\ portStarted
  /\ listeners > 0
  /\ processor = "live"
  /\ hpc = "idle"
  /\ inbox # <<>>
  /\ cur' = Head(inbox)
  /\ inbox' = Tail(inbox)
  /\ inv' = [NoInvocation EXCEPT !.payload = Head(inbox)]
  /\ hpc' = Dispatch(Head(inbox))
  /\ cmdsDelivered' = IF Dispatch(Head(inbox)) = "lock"
                        THEN cmdsDelivered + 1 ELSE cmdsDelivered
  /\ lastDispatch' = IF StaleListeners > 0 THEN "ran_and_threw" ELSE "ran"
  /\ UNCHANGED <<posted, applied, lastApplied, destroyHandled>>
  /\ UNCHANGED <<globalVars, adapterVars, bridgeVars, processVars>>

\* variant: the Closure outlives the Processor and goes on serving the port
MessageCallbackLeaked ==
  /\ portStarted
  /\ listeners > 0
  /\ processor = "freed"
  /\ hpc = "idle"
  /\ inbox # <<>>
  /\ cur' = Head(inbox)
  /\ inbox' = Tail(inbox)
  /\ inv' = [NoInvocation EXCEPT !.payload = Head(inbox)]
  /\ hpc' = Dispatch(Head(inbox))
  /\ cmdsDelivered' = IF Dispatch(Head(inbox)) = "lock"
                        THEN cmdsDelivered + 1 ELSE cmdsDelivered
  /\ lastDispatch' = IF StaleListeners > 0 THEN "ran_and_threw" ELSE "ran"
  /\ UNCHANGED <<posted, applied, lastApplied, destroyHandled>>
  /\ UNCHANGED <<globalVars, adapterVars, bridgeVars, processVars>>

\* After free() the Closure owned by the Processor is dropped while its
\* listener stays on the port: the dispatch throws instead of running the
\* callback body.
MessageCallbackDropped ==
  /\ portStarted
  /\ listeners > 0
  /\ processor = "freed"
  /\ hpc = "idle"
  /\ inbox # <<>>
  /\ inbox' = Tail(inbox)
  /\ lastDispatch' = "threw"
  /\ UNCHANGED <<hpc, posted, cur, inv, cmdsDelivered, applied, lastApplied,
                 destroyHandled>>
  /\ UNCHANGED <<globalVars, adapterVars, bridgeVars, processVars>>

\* the Destroy branch has run
DestroyBranchDone ==
  /\ hpc = "store"
  /\ destroyHandled' = TRUE
  /\ inv' = [inv EXCEPT !.internal = @ + 1]
  /\ hpc' = "stored"
  /\ UNCHANGED <<mutex, gain, audioIn, audioOut, connectCalls, listeners,
                 portStarted, freeCalls>>
  /\ UNCHANGED <<inbox, posted, cur, cmdsDelivered, applied, lastApplied,
                 lastDispatch>>
  /\ UNCHANGED <<globalVars, adapterVars, processVars>>

\* variant: the Destroy branch leaves the flag alone
HandleDestroyNoStore ==
  /\ DestroyBranchDone
  /\ UNCHANGED enabled

\* InternalMessage::Destroy => enabled.store(false, Ordering::Relaxed)
HandleDestroy ==
  /\ DestroyBranchDone
  /\ enabled' = FALSE

\* the lock is taken by the callback
CallbackTakesLock ==
  /\ mutex' = "handler"
  /\ hpc' = "on_command"
  /\ UNCHANGED <<enabled, gain, audioIn, audioOut, connectCalls, listeners,
                 portStarted, freeCalls>>
  /\ UNCHANGED <<inbox, posted, cur, inv, cmdsDelivered, applied,
                 lastApplied, destroyHandled, lastDispatch>>
  /\ UNCHANGED <<globalVars, adapterVars, processVars>>

\* variant: the callback enters on_command without waiting for the lock
HandleLockBarging ==
  /\ hpc = "lock"
  /\ CallbackTakesLock

\* rs_processor.lock().unwrap(): waits while process owns the lock
HandleLock ==
  /\ hpc = "lock"
  /\ mutex = "free"
  /\ CallbackTakesLock

\* .on_command(event.data().into()) on the locked module; the sample
\* module applies the command and reports it through its Emitter, whose
\* post the port accepts or rejects.
HandleOnCommand ==
  /\ hpc = "on_command"
  /\ gain' = OnCommand(gain, CommandFromJs(cur))
  /\ applied' = applied + 1
  /\ lastApplied' = CommandFromJs(cur)
  /\ \E ok \in BOOLEAN :
       LET sent == EmitterSend(CommandFromJs(cur), ok) IN
         /\ inv' = [inv EXCEPT !.oncmd = @ + 1, !.arg = CommandFromJs(cur),
                               !.sent = sent]
         /\ lastDispatch' = IF sent.raised THEN "threw" ELSE lastDispatch
  /\ hpc' = "unlock"
  /\ UNCHANGED <<enabled, mutex, audioIn, audioOut, connectCalls, listeners,
                 portStarted, freeCalls>>
  /\ UNCHANGED <<inbox, posted, cur, cmdsDelivered, destroyHandled>>
  /\ UNCHANGED <<globalVars, adapterVars, processVars>>

\* the callback returns: its event and the record of the invocation are gone
CallbackReturns ==
  /\ hpc' = "idle"
  /\ cur' = DestroyPayload
  /\ inv' = NoInvocation
  /\ UNCHANGED <<inbox, posted, cmdsDelivered, applied, lastApplied,
                 destroyHandled, lastDispatch>>
  /\ UNCHANGED <<globalVars, adapterVars, processVars>>

\* end of the Destroy arm
HandleDestroyReturn ==
  /\ hpc = "stored"
  /\ CallbackReturns
  /\ UNCHANGED bridgeVars

\* the MutexGuard temporary is dropped at the end of the statement, which
\* ends the else branch
HandleUnlock ==
  /\ hpc = "unlock"
  /\ mutex' = "free"
  /\ CallbackReturns
  /\ UNCHANGED <<enabled, gain, audioIn, audioOut, connectCalls, listeners,
                 portStarted, freeCalls>>

\* ------------------------------------------------------------ specification
Next ==
  \/ RunLoader
  \/ \E src \in WasmSrcs, ok \in BOOLEAN : Construct(src, ok)
  \/ InitCompile
  \/ InitInstantiate
  \/ InitConstruct
  \/ InitPost
  \/ InitConnect
  \/ \E x \in RawInputs(layout) : AdapterProcessCall(x)
  \/ ProcCopyIn
  \/ ProcCopyParams
  \/ ProcLock
  \/ ProcModule
  \/ ProcUnlock
  \/ ProcCopyOut
  \/ ProcLoad
  \/ AdapterProcessReturn
  \/ \E p \in Payloads : PostMessage(p)
  \/ MessageCallback
  \/ MessageCallbackDropped
  \/ HandleDestroy
  \/ HandleDestroyReturn
  \/ HandleLock
  \/ HandleOnCommand
  \/ HandleUnlock

Spec == Init /\ [][Next]_vars

\* ------------------------------------------------------------ properties
InProcessorProcess ==
  ppc \in {"copy_in", "copy_params", "lock", "module", "unlock", "copy_out",
           "load"}

\* C1: a Processor::process call made after a Destroy message was handled
\* returns false; the adapter returns false to the host in that same call;
\* afterwards no Processor::process call runs on that Processor (a further
\* host call can only throw), so false is returned exactly once.
C1_DestroyThenFalse ==
  /\ [](ppc = "ret" /\ entryAfterDestroy => ret = FALSE)
  /\ [][(ppc = "ret" /\ ~ret /\ ppc' = "idle")
          => lastRet' = "false" /\ falseRets' = falseRets + 1]_vars
  /\ [](falseRets >= 1 => ppc = "idle" /\ processor = "freed")
  /\ [](falseRets <= 1)
  /\ [][(falseRets = 1 /\ quanta' # quanta) => lastRet' = "throw"]_vars

C1_Witness ==
  /\ destroyHandled
  /\ falseRets = 1
  /\ lastRet = "throw"

IsInternal(p) == DecodeInternal(p) = "Destroy"

\* C2: decode-first dispatch.  An invocation whose payload decodes as an
\* InternalMessage never calls on_command; one whose payload does not decode
\* calls on_command exactly once, with the Command converted from that
\* payload; no invocation does both and none returns having done neither.
C2_DecodeFirst ==
  /\ inv.internal + inv.oncmd <= 1
  /\ IsInternal(inv.payload) => inv.oncmd = 0
  /\ ~IsInternal(inv.payload) => inv.internal = 0
  /\ inv.oncmd = 1 => inv.arg = CommandFromJs(inv.payload)
  /\ hpc # "idle" => inv.payload = cur
  /\ hpc \in {"stored", "unlock"} => inv.internal + inv.oncmd = 1
  /\ hpc \in {"store", "lock", "on_command"} => inv.internal + inv.oncmd = 0

C2_Witness ==
  /\ hpc = "unlock"
  /\ inv.oncmd = 1
  /\ inv.arg.gain = 3
  /\ destroyHandled

\* C3: the adapter frees the Processor at most once, only when returning
\* from a call in which Processor::process returned false, never while the
\* enabled flag is true; once a call made after a handled Destroy has
\* returned, the Processor has been freed exactly once.
C3_TeardownOnce ==
  /\ [](freeCalls <= 1)
  /\ [][freeCalls' # freeCalls
          => /\ ppc = "ret" /\ ~ret /\ ~enabled
             /\ lastRet' = "false"]_vars
  /\ []((calledAfterDestroy /\ ppc = "idle") => freeCalls = 1)

C3_Witness ==
  /\ freeCalls = 1
  /\ calledAfterDestroy
  /\ processor = "freed"
  /\ ppc = "idle"

\* a step in which the port hands a Destroy message to the registered
\* listener, or in which the callback finishes its Destroy branch
DestroyDelivered ==
  \/ /\ portStarted /\ hpc = "idle" /\ inbox # <<>>
     /\ Head(inbox) = DestroyPayload
     /\ inbox' = Tail(inbox)
  \/ hpc = "store" /\ hpc' = "stored"

\* C4: handling Destroy is idempotent.  A Destroy delivered after an earlier
\* Destroy was handled leaves the Processor state unchanged (enabled stays
\* false), causes no second teardown and raises no fault.
C4_DestroyIdempotent ==
  [][(destroyHandled /\ DestroyDelivered)
       => /\ enabled' = FALSE
          /\ UNCHANGED <<bridgeVars, processor, applied>>
          /\ lastDispatch' # "threw"]_vars

ModuleProcessDone == ppc \in {"unlock", "copy_out", "load", "ret"}

OutputCopied == ppc \in {"load", "ret"}

\* C5 as stated: every command delivered to the callback before a quantum
\* acquired the module lock was applied before that quantum's module
\* process ran.
C5_AppliedBeforeNextLock ==
  ModuleProcessDone => appliedAtLock = cmdsAtLock

\* C5 amended: the module process of a quantum sees exactly the commands
\* whose on_command took the module lock before the quantum did (no later
\* one, and none is applied while the quantum holds the lock); commands are
\* applied one at a time in the order of their delivery.
C5_AppliedBeforeLockVisible ==
  /\ ModuleProcessDone => gainUsed = gainAtLock
  /\ ppc \in {"module", "unlock"} => applied = appliedAtLock /\ gain = gainAtLock
  /\ gain = IF applied = 0 THEN 1 ELSE lastApplied.gain
  /\ applied <= cmdsDelivered /\ cmdsDelivered <= applied + 1
  /\ hpc \in {"unlock", "idle", "store", "stored"} => applied = cmdsDelivered
  /\ hpc = "unlock" => lastApplied = CommandFromJs(cur)

C5_Witness ==
  /\ ppc = "unlock"
  /\ appliedAtLock >= 1
  /\ gainUsed = 3
  /\ hpc = "lock"

\* C6: the module's on_command (called by the callback) and the module's
\* process (called by Processor::process) never execute at the same time:
\* each runs only while its caller owns the lock, and the lock is released
\* when the call has returned.
C6_MutualExclusion ==
  /\ ~(hpc \in {"on_command", "unlock"} /\ ppc \in {"module", "unlock"})
  /\ hpc \in {"on_command", "unlock"} <=> mutex = "handler"
  /\ ppc \in {"module", "unlock"} <=> mutex = "process"

C6_Witness ==
  /\ hpc = "on_command"
  /\ ppc = "lock"
  /\ mutex = "handler"

\* a step of Processor::process or of the adapter code around it
ProcessStep ==
  \/ ProcCopyIn
  \/ ProcCopyParams
  \/ ProcLock
  \/ ProcModule
  \/ ProcUnlock
  \/ ProcCopyOut
  \/ ProcLoad
  \/ AdapterProcessReturn

\* C7 as stated: Processor::process never waits on the message callback.
C7_ProcessNeverWaits ==
  (InProcessorProcess \/ ppc = "ret") => ENABLED ProcessStep

\* C7 amended: Processor::process waits on the message callback only when
\* acquiring the module lock, and only while the callback owns that lock
\* around on_command; the read of the enabled flag never waits and the
\* Destroy branch never makes process wait.
C7_WaitsOnlyForLock ==
  ((InProcessorProcess \/ ppc = "ret") /\ ~ENABLED ProcessStep)
    => /\ ppc = "lock"
       /\ mutex = "handler"
       /\ hpc \in {"on_command", "unlock"}

C7_Witness ==
  /\ ppc = "lock"
  /\ hpc = "unlock"
  /\ ~ENABLED ProcessStep

\* C8: the completion message is posted at most once per adapter instance,
\* exactly once when init succeeds, only after the payload (if any) was
\* compiled and instantiated and the Processor constructed, before connect
\* is called, and never when init fails.
C8_CompletionOnce ==
  /\ doneMsgs <= 1
  /\ doneMsgs = 1 => processor # "undef"
  /\ (doneMsgs = 1 /\ apc # "done" /\ wasmSrc # "none")
       => compiled /\ instantiated
  /\ apc = "connect" => doneMsgs = 1 /\ connectCalls = 0
  /\ connectCalls > 0 => doneMsgs = 1
  /\ apc = "done" => doneMsgs = 1
  /\ apc = "failed" => doneMsgs = 0

C8_Witness ==
  /\ apc = "connect"
  /\ wasmSrc = "ok"
  /\ compiled
  /\ instantiated
  /\ processor = "live"
  /\ doneMsgs = 1

\* C9: evaluating the loader script again leaves globalThis.bindgen and
\* globalThis.init as the first evaluation set them; a binding that is set
\* is never overwritten, and the loader touches nothing else.
C9_LoaderIdempotent ==
  /\ [][bindgen # Undef => bindgen' = bindgen]_vars
  /\ [][init # Undef => init' = init]_vars
  /\ [][loads' # loads
          => UNCHANGED <<adapterVars, bridgeVars, processVars,
                         handlerVars>>]_vars
  /\ [](loads >= 1 => bindgen # Undef /\ init # Undef)

C9_Witness ==
  /\ loads = 2
  /\ bindgen = 1
  /\ init = 1

\* init has attempted the step that the payload makes fail
PayloadFailed ==
  \/ wasmSrc = "bad_compile" /\ apc # "compile"
  \/ wasmSrc = "bad_instantiate" /\ apc \notin {"compile", "instantiate"}

\* C10: when compiling or instantiating the payload fails, init stops for
\* good: no Processor is constructed, no completion message is posted,
\* connect is never called, no message listener is registered and no message
\* is ever handled.
C10_BootstrapAborts ==
  /\ []((PayloadFailed \/ failedAt \in {"compile", "instantiate"})
          => /\ apc = "failed"
             /\ processor = "undef"
             /\ doneMsgs = 0
             /\ connectCalls = 0
             /\ listeners = 0
             /\ ~portStarted
             /\ inv = NoInvocation
             /\ cmdsDelivered = 0
             /\ ~destroyHandled)
  /\ [][apc = "failed" => apc' = "failed"]_vars

C10_Witness ==
  /\ failedAt = "compile"
  /\ quanta > 0
  /\ inbox # <<>>

\* C11: when the construction options are missing or do not convert to the
\* buffer sizing, Processor::new fails and init stops there for good: no
\* Processor exists, connect is never called, no message listener is
\* registered, the port is not started, no message is handled and
\* Processor::process (hence the module's process) is never entered.
C11_BadOptionsNeverConnected ==
  /\ [](~optionsOk
          => /\ apc \notin {"post", "connect", "done"}
             /\ processor = "undef"
             /\ doneMsgs = 0
             /\ connectCalls = 0
             /\ listeners = 0
             /\ ~portStarted
             /\ hpc = "idle" /\ inv = NoInvocation /\ applied = 0
             /\ ppc = "idle" /\ trace = <<>> /\ gainUsed = 0)
  /\ [][(~optionsOk /\ apc = "construct" /\ apc' # apc)
          => apc' = "failed" /\ failedAt' = "construct"]_vars
  /\ [][failedAt = "construct"
          => apc' = "failed" /\ failedAt' = "construct"]_vars

C11_Witness ==
  /\ ~optionsOk
  /\ bindgen # Undef
  /\ failedAt = "construct"
  /\ quanta > 0
  /\ inbox # <<>>

\* the steps of one Processor::process call, in the order of the code
ProcessSteps ==
  <<"copy_from_input", "copy_from_params", "lock", "module_process",
    "unlock", "copy_to_output", "load_enabled">>

StepsDone ==
  CASE ppc = "copy_params" -> 1
    [] ppc = "lock"        -> 2
    [] ppc = "module"      -> 3
    [] ppc = "unlock"      -> 4
    [] ppc = "copy_out"    -> 5
    [] ppc = "load"        -> 6
    [] ppc = "ret"         -> 7
    [] OTHER               -> 0

\* C13: every Processor::process call performs, in this order and each
\* once: input copy, automation copy, lock, the module's process, unlock,
\* output copy, read of the enabled flag.  The lock is held exactly from
\* lock to unlock (not during the output copy nor at the return), each step
\* has its effect, and the value returned is the enabled flag as it is when
\* read after the output copy.
C13_StepOrder ==
  /\ [](trace = SubSeq(ProcessSteps, 1, StepsDone))
  /\ [](mutex = "process" <=> ppc \in {"module", "unlock"})
  /\ [](ppc \in {"copy_params", "lock", "module"}
          => audioIn = CopyFromInput(audioIn, rawIn))
  /\ [](ModuleProcessDone
          => audioOut = ModuleProcess(audioIn, audioOut, gainUsed))
  /\ [](OutputCopied => rawOut = audioOut)
  /\ [][(ppc = "load" /\ ppc' # ppc) => ppc' = "ret" /\ ret' = enabled]_vars
  /\ [][(ppc # "load" /\ ppc' = "ret") => ppc = "ret"]_vars

C13_Witness ==
  /\ ppc = "ret"
  /\ ~ret
  /\ trace = ProcessSteps
  /\ rawOut = <<<<3>>>>
  /\ mutex = "free"

\* the Destroy branch of the callback stores the flag
DestroyStored == hpc = "store" /\ hpc' = "stored"

\* C14 as stated: handling Destroy does not touch a process call in flight,
\* and the module's process is not invoked in any call that starts after
\* Destroy was handled.
C14_DestroyPreventsNext ==
  /\ [][DestroyStored
          => UNCHANGED <<processVars, mutex, audioIn, audioOut>>]_vars
  /\ [](entryAfterDestroy => ~ModuleProcessDone)

\* C14 amended: handling Destroy does not touch a process call in flight,
\* which goes on to its module invocation and output copy.  The flag is
\* polled at the end of Processor::process: the first call that starts after
\* Destroy was handled still invokes the module's process and copies its
\* output, then returns false; no call that starts after that one enters
\* Processor::process.
C14_DestroyStopsAfterOneMore ==
  /\ [][DestroyStored
          => UNCHANGED <<processVars, mutex, audioIn, audioOut>>]_vars
  /\ []((InProcessorProcess /\ ~enabled /\ ~ENABLED ProcessStep)
          => ppc = "lock" /\ mutex = "handler")
  /\ []((ppc = "ret" /\ entryAfterDestroy)
          => ~ret /\ trace = ProcessSteps /\ rawOut = audioOut)
  /\ [][(calledAfterDestroy /\ ppc = "idle" /\ quanta' # quanta)
          => ppc' = "idle" /\ lastRet' = "throw"]_vars
  /\ [](falseRets >= 1 => ~InProcessorProcess)

C14_Witness ==
  /\ entryAfterDestroy
  /\ ppc = "ret"
  /\ ~ret
  /\ trace = ProcessSteps
  /\ rawIn = <<<<1>>>>
  /\ rawOut = <<<<1>>>>

\* C16: the enabled flag is true from construction until a Destroy is
\* handled; the only step that changes it is the store of the callback's
\* Destroy branch, which makes it false; Processor::process and the command
\* branch leave it alone; once false it is never true again.
C16_EnabledOneWriter ==
  /\ [][enabled' # enabled => DestroyStored /\ enabled' = FALSE]_vars
  /\ [][~enabled => ~enabled']_vars
  /\ [](destroyHandled <=> ~enabled)
  /\ [][(ProcessStep \/ HandleLock \/ HandleOnCommand \/ HandleUnlock)
          => enabled' = enabled]_vars

C16_Witness ==
  /\ ~enabled
  /\ ppc = "copy_in"
  /\ hpc = "on_command"

\* the port takes a message off its queue and dispatches it
Dispatched == Len(inbox') < Len(inbox)

\* C19: after the adapter called free, the listener of connect is still on
\* the port, but a message dispatched from then on never reaches the
\* callback body: it is not decoded, not forwarded to on_command and does
\* not change the enabled flag or the module.
C19_NoDeliveryAfterFree ==
  /\ [][(processor = "freed" /\ Dispatched)
          => /\ lastDispatch' = "threw"
             /\ UNCHANGED <<hpc, cur, inv, cmdsDelivered, applied,
                            lastApplied, destroyHandled, bridgeVars>>]_vars
  /\ [][(processor = "freed" /\ hpc = "idle")
          => /\ hpc' = "idle"
             /\ UNCHANGED <<enabled, gain, mutex, applied,
                            cmdsDelivered>>]_vars
  /\ [](processor = "freed" => listeners = 1 /\ freeCalls = 1)

C19_Witness ==
  /\ processor = "freed"
  /\ lastDispatch = "threw"
  /\ posted >= 2
  /\ inbox = <<>>

\* C20: while this.processor is not set (init pending at its await, or
\* failed), every adapter process call returns true without entering
\* Processor::process, writing the outputs or freeing anything; the adapter
\* returns false only at the end of a call in which the Processor::process
\* of an existing Processor returned false.
C20_NoProcessorReturnsTrue ==
  /\ [](processor = "undef"
          => /\ ppc = "idle" /\ trace = <<>> /\ rawOut = <<>>
             /\ gainUsed = 0
             /\ falseRets = 0 /\ freeCalls = 0
             /\ lastRet \in {"none", "true"})
  /\ [][(processor = "undef" /\ quanta' # quanta)
          => /\ lastRet' = "true"
             /\ UNCHANGED <<ppc, processor, frameVars, bridgeVars>>]_vars
  /\ [][falseRets' # falseRets
          => processor = "live" /\ ppc = "ret" /\ ~ret]_vars

C20_Witness ==
  /\ processor = "undef"
  /\ apc = "compile"
  /\ quanta >= 2
  /\ lastRet = "true"

\* on_command, with the module's Emitter::send inside it, runs
OnCommandRuns == hpc = "on_command" /\ hpc' # hpc

\* C17: Emitter::send posts the converted event once and returns at once;
\* whether or not the port accepted the post, send returns normally, nothing
\* is raised to the caller, the post is not repeated, on_command completes
\* the same way and no state of the Processor or of the module differs.
C17_SendFireAndForget ==
  /\ [](hpc = "unlock"
          => /\ inv.sent.posts = 1
             /\ ~inv.sent.raised
             /\ inv.sent.data = EventToJs(inv.arg)
             /\ inv.oncmd = 1
             /\ gain = OnCommand(gain, inv.arg)
             /\ mutex = "handler")
  /\ [](hpc # "unlock" => inv.sent = NoSend)
  /\ [][OnCommandRuns
          => /\ hpc' = "unlock"
             /\ gain' = OnCommand(gain, CommandFromJs(cur))
             /\ applied' = applied + 1
             /\ UNCHANGED <<enabled, mutex, audioIn, audioOut, connectCalls,
                            listeners, portStarted, freeCalls, processor,
                            lastDispatch, inbox, processVars>>]_vars

C17_Witness ==
  /\ hpc = "unlock"
  /\ inv.sent.posts = 1
  /\ ~inv.sent.delivered
  /\ gain = 3
  /\ ppc = "lock"

\* ------------------------------------- the port under any use of its API
\* The bootstrap and the message side of the bridge when the control side
\* posts any payload and connect may be called again on the Processor.
NextPort ==
  \/ RunLoader
  \/ \E src \in WasmSrcs, ok \in BOOLEAN : Construct(src, ok)
  \/ InitCompile
  \/ InitInstantiate
  \/ InitConstruct
  \/ InitPost
  \/ InitConnect
  \/ ConnectAgain
  \/ \E p \in AnyPayloads : PostMessage(p)
  \/ MessageCallback
  \/ HandleDestroy
  \/ HandleDestroyReturn
  \/ HandleLock
  \/ HandleOnCommand
  \/ HandleUnlock

SpecPort == Init /\ [][NextPort]_vars

\* C15: connect registers the listener and starts the port; each dispatched
\* message runs the callback once per connect call (once after one call,
\* twice after two) and no listener fails.
C15_HandledOncePerConnect ==
  /\ [](connectCalls > 0 => listeners = connectCalls /\ portStarted)
  /\ [][Dispatched
          => LiveClosures = connectCalls /\ lastDispatch' = "ran"]_vars

\* C18: a payload that is neither an InternalMessage nor a Command is a
\* silent no-op: on_command is not invoked for it, the module lock is not
\* taken, the enabled flag does not change and nothing is raised.
C18_UnknownPayloadNoOp ==
  /\ [](cur = OtherPayload
          => /\ inv.oncmd = 0
             /\ hpc \notin {"on_command", "unlock"}
             /\ lastDispatch # "threw")
  /\ [][cur' = OtherPayload => enabled' = enabled]_vars

\* ------------------------------------------ one quantum, every topology
\* A connected Processor of any topology whose module has any gain, at the
\* entry of Processor::process with any raw input of that topology.
InitRT ==
  /\ bindgen = Imported(1) /\ init = Imported(1) /\ loads = 1
  /\ apc = "done" /\ wasmSrc = "none" /\ optionsOk = TRUE
  /\ layout \in Layouts
  /\ compiled = FALSE /\ instantiated = FALSE /\ failedAt = "none"
  /\ processor = "live" /\ doneMsgs = 1
  /\ enabled = TRUE /\ mutex = "free" /\ gain \in {1} \cup Gains
  /\ audioIn = ZeroBuffer(layout.ins, layout.chans)
  /\ audioOut = ZeroBuffer(layout.outs, layout.chans)
  /\ connectCalls = 1 /\ listeners = 1 /\ portStarted = TRUE
  /\ freeCalls = 0
  /\ ppc = "copy_in" /\ quanta = 1 /\ lastRet = "none" /\ falseRets = 0
  /\ calledAfterDestroy = FALSE
  /\ rawIn \in RawInputs(layout)
  /\ rawOut = ZeroBuffer(layout.outs, layout.chans)
  /\ ret = TRUE /\ trace = <<>>
  /\ entryAfterDestroy = FALSE
  /\ cmdsAtLock = 0 /\ appliedAtLock = 0 /\ gainAtLock = 0 /\ gainUsed = 0
  /\ hpc = "idle" /\ inbox = <<>> /\ posted = 0 /\ cur = DestroyPayload
  /\ inv = NoInvocation /\ cmdsDelivered = 0 /\ applied = 0
  /\ lastApplied = NoCommand /\ destroyHandled = FALSE
  /\ lastDispatch = "none"

NextRT ==
  \/ ProcCopyIn
  \/ ProcCopyParams
  \/ ProcLock
  \/ ProcModule
  \/ ProcUnlock
  \/ ProcCopyOut
  \/ ProcLoad
  \/ AdapterProcessReturn

SpecRT == InitRT /\ [][NextRT]_vars

====
